---- MODULE Spec2Model ----
(***************************************************************************)
(* A model of stockfisher.py: the Board class (random placement of pieces  *)
(* and FEN serialisation) and the Stockfish class (a session that owns one *)
(* engine sub-process and talks UCI to it over a pair of pipes).           *)
(*                                                                         *)
(* The engine is a separate process: it consumes the commands written to   *)
(* its stdin in order, writes reply lines to its stdout, and may exit at   *)
(* any moment.  A method of Stockfish is split into steps at the points    *)
(* where it touches the process (a write, a read, a poll, a wait), since   *)
(* the process runs between them.                                          *)
(***************************************************************************)
EXTENDS Integers, Sequences, FiniteSets, TLC

VARIABLES
    \* ---- class Stockfish and its sub-processes
    stockfish,   \* self.stockfish: 0 is None, otherwise the pid of the Popen object
    nproc,       \* number of sub-processes launched so far (pids are 1..nproc)
    pstate,      \* pid -> "absent" | "running" | "exited" (not waited for) | "reaped"
    pin,         \* pid -> commands written to the process's stdin and not yet consumed
    pout,        \* pid -> lines written to the process's stdout and not yet read
    ppos,        \* pid -> the FEN of the position the process holds
    op,          \* the method the caller invoked last
    pc,          \* where the caller is inside that method ("idle" before any call)
    outcome,     \* how the last completed call ended (a return value or an exception)
    arg,         \* set_fen: the parameter fen
    line,        \* the local variable line: the last line read
    fenRead,     \* _get_fen_and_check_status: the local fen ("None" for None)
    inCheck,     \* _get_fen_and_check_status: the local in_check ("None", "True", "False")
    info,        \* evaluate: the local info (<<>> for None, else <<line>>)
    evaluation,  \* evaluate: the value returned (a sequence of tokens)
    \* ---- history of the current call, kept to state the properties
    sent,        \* the commands written during the current call, as <<pid, command>>
    seen,        \* the lines read from the pipe during the current call, in order
    ncalls,      \* number of calls made
    h0,          \* self.stockfish when the current call began
    n0,          \* nproc when the current call began
    exitAt,      \* pc at which the session's process exited during the current call
    prev,        \* outcome of the call before the current one
    scope,       \* where the calls so far stand as a use of the session in a with
                 \* statement: "enter", "body", "exit", or "out" when they are none
    posOK,       \* a set_fen has returned a check status on the current process
    \* ---- class Board
    board,       \* self.board: cell 0..63 -> " " or a piece letter
    pieces,      \* place_random_pieces: the parameter pieces
    pidx,        \* place_random_pieces: number of symbols of pieces handled so far
    emptyPos,    \* place_random_pieces: the local empty_positions
    bpc,         \* "idle" | "placing" | "placed" | "IndexError" | "fen" | "ValueError"
    board0,      \* self.board when the last place_random_pieces began (history)
    nplaced,     \* symbols placed since the board was reset (to bound the inputs)
    fenMover,    \* fen: the parameter mover
    fenOut       \* fen: the string returned, as a sequence of characters

svars == <<stockfish, nproc, pstate, pin, pout, ppos, op, pc, outcome, arg, line,
           fenRead, inCheck, info, evaluation, sent, seen, ncalls, h0, n0, exitAt, prev, scope,
           posOK>>
bvars == <<board, pieces, pidx, emptyPos, bpc, board0, nplaced, fenMover, fenOut>>
vars == <<svars, bvars>>

(***************************************************************************)
(* Bounds of the model.                                                    *)
(***************************************************************************)
MaxProcs == 3      \* sub-processes the session may launch
MaxCalls == 5      \* method calls the caller makes
MaxFree == 2       \* symbols the caller gives to place_random_pieces between two
                   \* resets of the board; symbols left to place in a scatter that
                   \* the model takes up under way

Pids == 1..MaxProcs

(***************************************************************************)
(* Lines and commands.  A line is <<kind, rest>>: kind is the text the     *)
(* code tests with == or startswith, rest is what follows it.  The line    *)
(* read at end of output is the empty line.  A line in a pipe has a third  *)
(* component, which the code never reads: the command it answers.          *)
(***************************************************************************)
Line(kind, rest) == <<kind, rest>>
EofLine == Line("", "")
\* The local line before the first read of a call.
NoLine == Line("(unbound)", "")

\* The positions the caller submits: a quiet one, one with the mover in
\* check, and one the engine echoes in a different spelling.
FenQuiet == "8/8/8/8/8/8/8/K1k5 w - - 0 1"
FenCheck == "8/8/8/8/8/8/1q6/K1k5 w - - 0 1"
FenOdd   == "8/8/8/8/8/8/8/K1k5 w - - 0 01"
FenStart == "rnbqkbnr/pppppppp/8/8/8/8/PPPPPPPP/RNBQKBNR w KQkq - 0 1"
Fens == {FenQuiet, FenCheck, FenOdd}

(***************************************************************************)
(* The engine sub-process (the program started by subprocess.Popen).       *)
(***************************************************************************)
\* What "d" prints for a position: the engine spells a FEN its own way.
Echo(f) == IF f = FenOdd THEN FenQuiet ELSE f
\* The squares of the pieces giving check, as printed after "Checkers:".
Checkers(f) == IF f = FenCheck THEN "b2" ELSE ""

\* The replies to "go": info lines, the last one before bestmove carrying
\* the final score; info lines of which the last carries no score; or no
\* info line at all.
GoReplies ==
    { << Line("info", <<"depth", "1", "score", "cp", "10">>),
         Line("info", <<"depth", "2", "score", "mate", "1", "nodes", "5">>),
         Line("bestmove", <<"a1a2">>) >>,
      << Line("info", <<"depth", "1", "score", "cp", "10">>),
         Line("info", <<"string", "done">>),
         Line("bestmove", <<"a1a2">>) >>,
      << Line("bestmove", <<"(none)">>) >> }

\* The replies to "d": the board, then the lines "Fen: ", "Key: " and
\* "Checkers:" and a line after them; and two replies of an engine that
\* prints them otherwise, with "Checkers:" first or with "Fen: " twice.
DumpReplies(f) ==
    { << Line("+---+", ""), Line("Fen: ", f), Line("Key: ", "0"),
         Line("Checkers:", Checkers(f)), Line("Tablebases", "") >>,
      << Line("Checkers:", Checkers(f)), Line("Fen: ", f) >>,
      << Line("Fen: ", f), Line("Fen: ", f), Line("Key: ", "0"),
         Line("Checkers:", Checkers(f)) >> }

\* The lines the engine prints for one command.
Reply(c, p) ==
    CASE c[1] = "uci"     -> { << Line("id", "name"), Line("uciok", "") >> }
      [] c[1] = "isready" -> { << Line("readyok", "") >> }
      [] c[1] = "d"       -> DumpReplies(ppos[p])
      [] c[1] = "go"      -> GoReplies
      [] OTHER            -> { <<>> }

\* A line of the reply to a command carries, third, the number of the call
\* that wrote the command and the command's name.
Stamp(r, n, c) == [i \in 1..Len(r) |-> <<r[i][1], r[i][2], <<n, c[1]>>>>]

\* The engine takes the next command from its stdin and answers it.
ProcStep(p) ==
    /\ pstate[p] = "running"
    /\ pin[p] # <<>>
    /\ LET c == Head(pin[p])[1]
           n == Head(pin[p])[2] IN
       IF c[1] = "quit"
       THEN /\ pstate' = [pstate EXCEPT ![p] = "exited"]
            /\ pin' = [pin EXCEPT ![p] = <<>>]
            /\ ppos' = [ppos EXCEPT ![p] = FenStart]
            /\ exitAt' = IF p = stockfish /\ exitAt = "none" THEN pc ELSE exitAt
            /\ UNCHANGED pout
       ELSE /\ pin' = [pin EXCEPT ![p] = Tail(@)]
            /\ \E r \in Reply(c, p) :
                   pout' = [pout EXCEPT ![p] = @ \o Stamp(r, n, c)]
            /\ ppos' = IF c[1] = "position"
                       THEN [ppos EXCEPT ![p] = Echo(c[2])]
                       ELSE ppos
            /\ UNCHANGED <<pstate, exitAt>>
    /\ UNCHANGED <<stockfish, nproc, op, pc, outcome, arg, line, fenRead, inCheck,
                   info, evaluation, sent, ncalls, seen, h0, n0, prev, scope, posOK, bvars>>

\* The engine exits on its own (a segmentation fault on a bad position, or
\* any other death).  What it had written stays readable in the pipe.
ProcExit(p) ==
    /\ pstate[p] = "running"
    /\ pstate' = [pstate EXCEPT ![p] = "exited"]
    /\ pin' = [pin EXCEPT ![p] = <<>>]
    /\ ppos' = [ppos EXCEPT ![p] = FenStart]
    /\ exitAt' = IF p = stockfish /\ exitAt = "none" THEN pc ELSE exitAt
    /\ UNCHANGED <<stockfish, nproc, pout, op, pc, outcome, arg, line, fenRead,
                   inCheck, info, evaluation, sent, ncalls, seen, h0, n0, prev, scope, posOK, bvars>>

(***************************************************************************)
(* class Stockfish: the pieces the methods are built from.                 *)
(***************************************************************************)
Exceptions == {"RuntimeError", "BrokenPipeError", "ValueError", "StockfishException"}
Statuses == {"Fault", "MoverInCheck", "MoverNotInCheck"}
Idle == {"idle", "done"}

\* A method ends: by a return (v is the value) or by an exception
\* propagating to the caller (v is its class).
Finish(v) == pc' = "done" /\ outcome' = v

\* The with statement: __enter__ is the first call, open(); the body runs
\* when it has returned; __exit__, which is close(), runs when the body has
\* ended or when a call of the body has raised.
ScopeAfter(name) ==
    IF ncalls = 0
    THEN IF name = "open" THEN "enter" ELSE "out"
    ELSE IF (scope = "enter" /\ outcome = "None")
            \/ (scope = "body" /\ outcome \notin Exceptions)
    THEN IF name = "close" THEN "exit" ELSE "body"
    ELSE IF scope = "body" /\ name = "close"
    THEN "exit"
    ELSE "out"

\* A variant of evaluate that keeps the info line of the call before.
StaleInfo(i) == i

\* evaluate: "info = None" before the read loop.
FreshInfo(i) == <<>>

\* A call begins: the history of the call is reset, the locals are fresh.
BeginCall(name, a) ==
    /\ pc \in Idle
    /\ ncalls < MaxCalls
    /\ ncalls' = ncalls + 1
    /\ op' = name
    /\ arg' = a
    /\ h0' = stockfish
    /\ n0' = nproc
    /\ exitAt' = "none"
    /\ prev' = outcome
    /\ scope' = ScopeAfter(name)
    /\ seen' = <<>>
    /\ line' = NoLine
    /\ fenRead' = "None"
    /\ inCheck' = "None"
    /\ info' = FreshInfo(info)
    /\ evaluation' = <<>>

\* _send_command: RuntimeError without a process object; the write and flush
\* reach the pipe while the process runs and raise BrokenPipeError once it
\* has exited (the read end of its stdin is closed).
SendStatus ==
    IF stockfish = 0 THEN "RuntimeError"
    ELSE IF pstate[stockfish] = "running" THEN "ok"
    ELSE "BrokenPipeError"

\* The number of the call a step belongs to (a call's first step counts it).
CallNo == IF pc \in Idle THEN ncalls + 1 ELSE ncalls

Send(log, c, next) ==
    IF SendStatus = "ok"
    THEN /\ pin' = [pin EXCEPT ![stockfish] = Append(@, <<c, CallNo>>)]
         /\ sent' = Append(log, <<stockfish, c>>)
         /\ pc' = next
         /\ UNCHANGED outcome
    ELSE /\ Finish(SendStatus)
         /\ sent' = log
         /\ UNCHANGED pin

\* _readline: blocks while the pipe is empty and the process runs; at end of
\* output readline() returns b"", which decodes and strips to "".
CanRead(p) == pout[p] # <<>> \/ pstate[p] # "running"
ReadLine(p) == IF pout[p] # <<>> THEN Head(pout[p]) ELSE EofLine
Consume(p) == [pout EXCEPT ![p] = IF @ = <<>> THEN @ ELSE Tail(@)]
\* The record of the lines read: a read at end of output adds nothing.
Saw(log, l) == IF l[1] = "" THEN log ELSE Append(log, l)

(***************************************************************************)
(* open                                                                    *)
(***************************************************************************)
\* A variant of open without its guard.
OpenAlways(h) == TRUE

\* open: the guard "self.stockfish is not None -> RuntimeError".
OpenAllowed(h) == h = 0

\* A variant of open that stops reading at the first line.
IsAnyLine(l) == TRUE

\* A variant of open that also stops reading at end of output.
IsUciokOrEof(l) == l[1] \in {"uciok", ""}

\* open: the loop ends on the line "uciok".
IsUciok(l) == l[1] = "uciok"

\* open up to and including Popen (also the open() of set_fen's crash path).
OpenBody ==
    IF ~OpenAllowed(stockfish)
    THEN /\ Finish("RuntimeError")
         /\ UNCHANGED <<stockfish, nproc, pstate, posOK>>
    ELSE /\ nproc < MaxProcs
         /\ nproc' = nproc + 1
         /\ stockfish' = nproc + 1
         /\ pstate' = [pstate EXCEPT ![nproc + 1] = "running"]
         /\ posOK' = FALSE
         /\ pc' = "open_uci"
         /\ UNCHANGED outcome

OpenCall ==
    /\ BeginCall("open", "")
    /\ OpenBody
    /\ sent' = <<>>
    /\ UNCHANGED <<pin, pout, ppos, bvars>>

OpenUci ==
    /\ pc = "open_uci"
    /\ Send(sent, <<"uci">>, "open_read")
    /\ UNCHANGED <<stockfish, nproc, pstate, pout, ppos, op, arg, line, fenRead,
                   inCheck, info, evaluation, ncalls, seen, h0, n0, exitAt, prev, scope, posOK, bvars>>

OpenRead ==
    /\ pc = "open_read"
    /\ CanRead(stockfish)
    /\ line' = ReadLine(stockfish)
    /\ pout' = Consume(stockfish)
    /\ seen' = Saw(seen, line')
    /\ IF IsUciok(line')
       THEN Finish(IF op = "set_fen" THEN "Fault" ELSE "None")
       ELSE UNCHANGED <<pc, outcome>>
    /\ UNCHANGED <<stockfish, nproc, pstate, pin, ppos, op, arg, fenRead, inCheck,
                   info, evaluation, sent, ncalls, h0, n0, exitAt, prev, scope, posOK, bvars>>

(***************************************************************************)
(* close                                                                   *)
(***************************************************************************)
CloseGuard(h) == h = 0

CloseCall ==
    /\ BeginCall("close", "")
    /\ IF CloseGuard(stockfish)
       THEN Finish("RuntimeError") /\ sent' = <<>> /\ UNCHANGED pin
       ELSE Send(<<>>, <<"quit">>, "close_wait")
    /\ UNCHANGED <<stockfish, nproc, pstate, pout, ppos, posOK, bvars>>

\* self.stockfish.wait(): returns once the process has exited, reaping it.
CloseWait ==
    /\ pc = "close_wait"
    /\ pstate[stockfish] # "running"
    /\ pstate' = [pstate EXCEPT ![stockfish] = "reaped"]
    /\ Finish("None")
    /\ UNCHANGED <<stockfish, nproc, pin, pout, ppos, op, arg, line, fenRead, inCheck,
                   info, evaluation, sent, ncalls, seen, h0, n0, exitAt, prev, scope, posOK, bvars>>

(***************************************************************************)
(* set_fen, with newgame, ping, wait and _get_fen_and_check_status         *)
(***************************************************************************)
NewgameGuard(h) == h = 0
PingGuard(h) == h = 0
WaitGuard(h) == h = 0
GetFenGuard(h) == h = 0

\* newgame() called by the caller: "ucinewgame" is written and the call is
\* over.
NewgameCall ==
    /\ BeginCall("newgame", "")
    /\ IF NewgameGuard(stockfish)
       THEN Finish("RuntimeError") /\ sent' = <<>> /\ UNCHANGED pin
       ELSE IF SendStatus = "ok"
       THEN /\ pin' = [pin EXCEPT ![stockfish] = Append(@, <<<<"ucinewgame">>, CallNo>>)]
            /\ sent' = <<<<stockfish, <<"ucinewgame">>>>>>
            /\ Finish("None")
       ELSE Finish(SendStatus) /\ sent' = <<>> /\ UNCHANGED pin
    /\ UNCHANGED <<stockfish, nproc, pstate, pout, ppos, posOK, bvars>>

\* ping() called by the caller: "isready", then the loop of PingPoll and
\* PingRead.
PingCall ==
    /\ BeginCall("ping", "")
    /\ IF PingGuard(stockfish)
       THEN Finish("RuntimeError") /\ sent' = <<>> /\ UNCHANGED pin
       ELSE Send(<<>>, <<"isready">>, "ping_poll")
    /\ UNCHANGED <<stockfish, nproc, pstate, pout, ppos, posOK, bvars>>

\* wait() called by the caller.
WaitCall ==
    /\ BeginCall("wait", "")
    /\ IF WaitGuard(stockfish)
       THEN Finish("RuntimeError")
       ELSE pc' = "wait_wait" /\ UNCHANGED outcome
    /\ sent' = <<>>
    /\ UNCHANGED <<stockfish, nproc, pstate, pin, pout, ppos, posOK, bvars>>

\* set_fen: newgame() sends "ucinewgame".
SetFenCall(f) ==
    /\ BeginCall("set_fen", f)
    /\ IF NewgameGuard(stockfish)
       THEN Finish("RuntimeError") /\ sent' = <<>> /\ UNCHANGED pin
       ELSE Send(<<>>, <<"ucinewgame">>, "sf_position")
    /\ UNCHANGED <<stockfish, nproc, pstate, pout, ppos, posOK, bvars>>

\* set_fen: "position fen {fen}".
SfPosition ==
    /\ pc = "sf_position"
    /\ Send(sent, <<"position", arg>>, "sf_isready")
    /\ UNCHANGED <<stockfish, nproc, pstate, pout, ppos, op, arg, line, fenRead,
                   inCheck, info, evaluation, ncalls, seen, h0, n0, exitAt, prev, scope, posOK, bvars>>

\* ping: "isready".  An exception of the write is not a StockfishException
\* and leaves set_fen.
SfIsready ==
    /\ pc = "sf_isready"
    /\ IF PingGuard(stockfish)
       THEN Finish("RuntimeError") /\ UNCHANGED <<pin, sent>>
       ELSE Send(sent, <<"isready">>, "ping_poll")
    /\ UNCHANGED <<stockfish, nproc, pstate, pout, ppos, op, arg, line, fenRead,
                   inCheck, info, evaluation, ncalls, seen, h0, n0, exitAt, prev, scope, posOK, bvars>>

\* A variant of ping whose poll never finds the process gone.
PollNever(st) == FALSE

\* ping: "self.stockfish.poll() is not None".
PollExited(st) == st # "running"

\* ping: self.stockfish.poll().  A process that has exited is reaped by the
\* poll, and ping raises StockfishException, which set_fen catches and which
\* reaches the caller of a ping() of its own.
PingPoll ==
    /\ pc = "ping_poll"
    /\ IF PollExited(pstate[stockfish])
       THEN /\ pstate' = [pstate EXCEPT ![stockfish] = "reaped"]
            /\ IF op = "ping"
               THEN Finish("StockfishException")
               ELSE pc' = "sf_wait" /\ UNCHANGED outcome
       ELSE /\ pc' = "ping_read"
            /\ UNCHANGED <<pstate, outcome>>
    /\ UNCHANGED <<stockfish, nproc, pin, pout, ppos, op, arg, line, fenRead,
                   inCheck, info, evaluation, sent, ncalls, seen, h0, n0, exitAt, prev, scope, posOK,
                   bvars>>

\* A variant of ping that ends on any line that is not empty.
IsNonEmptyLine(l) == l[1] # ""

\* ping: the loop ends on the line "readyok".
IsReadyok(l) == l[1] = "readyok"

PingRead ==
    /\ pc = "ping_read"
    /\ CanRead(stockfish)
    /\ line' = ReadLine(stockfish)
    /\ pout' = Consume(stockfish)
    /\ seen' = Saw(seen, line')
    /\ IF IsReadyok(line')
       THEN IF op = "ping"
            THEN Finish("None")
            ELSE pc' = "d_send" /\ UNCHANGED outcome
       ELSE pc' = "ping_poll" /\ UNCHANGED outcome
    /\ UNCHANGED <<stockfish, nproc, pstate, pin, ppos, op, arg, fenRead,
                   inCheck, info, evaluation, sent, ncalls, h0, n0, exitAt, prev, scope, posOK,
                   bvars>>

\* A variant of wait that keeps the Popen object.
WaitKeepsHandle(h) == h

\* wait: what self.stockfish is after the process has been waited for.
WaitHandle(h) == 0

\* set_fen, crash path: self.wait().
SfWait ==
    /\ pc = "sf_wait"
    /\ IF WaitGuard(stockfish)
       THEN /\ Finish("RuntimeError")
            /\ UNCHANGED <<stockfish, pstate>>
       ELSE /\ pstate[stockfish] # "running"
            /\ pstate' = [pstate EXCEPT ![stockfish] = "reaped"]
            /\ stockfish' = WaitHandle(stockfish)
            /\ pc' = "sf_open"
            /\ UNCHANGED outcome
    /\ UNCHANGED <<nproc, pin, pout, ppos, op, arg, line, fenRead, inCheck, info,
                   evaluation, sent, ncalls, seen, h0, n0, exitAt, prev, scope, posOK, bvars>>

\* wait() called by the caller: self.stockfish.wait() returns once the
\* process has exited, reaping it, and the Popen object is dropped.
WaitWait ==
    /\ pc = "wait_wait"
    /\ pstate[stockfish] # "running"
    /\ pstate' = [pstate EXCEPT ![stockfish] = "reaped"]
    /\ stockfish' = WaitHandle(stockfish)
    /\ Finish("None")
    /\ UNCHANGED <<nproc, pin, pout, ppos, op, arg, line, fenRead, inCheck, info,
                   evaluation, sent, ncalls, seen, h0, n0, exitAt, prev, scope, posOK,
                   bvars>>

\* set_fen, crash path: self.open(), which goes on in OpenUci and OpenRead
\* and ends set_fen with the status Fault.
SfOpen ==
    /\ pc = "sf_open"
    /\ OpenBody
    /\ UNCHANGED <<pin, pout, ppos, op, arg, line, fenRead, inCheck, info, evaluation,
                   sent, ncalls, seen, h0, n0, exitAt, prev, scope, bvars>>

\* _get_fen_and_check_status: "d".
DSend ==
    /\ pc = "d_send"
    /\ IF GetFenGuard(stockfish)
       THEN Finish("RuntimeError") /\ UNCHANGED <<pin, sent>>
       ELSE Send(sent, <<"d">>, "d_read")
    /\ fenRead' = "None"
    /\ inCheck' = "None"
    /\ UNCHANGED <<stockfish, nproc, pstate, pout, ppos, op, arg, line, info,
                   evaluation, ncalls, seen, h0, n0, exitAt, prev, scope, posOK, bvars>>

\* A variant of set_fen that does not compare the FEN read back.
FenNeverMismatch(f, readback) == FALSE

\* set_fen: "if fen != readback_fen: raise RuntimeError".
FenMismatch(f, readback) == f # readback

\* A variant of _get_fen_and_check_status that finds every line different
\* from the bare "Checkers:".
InCheckAlways(l) == "True"

\* _get_fen_and_check_status: in_check = (line != "Checkers:").
InCheckOf(l) == IF l[2] # "" THEN "True" ELSE "False"

\* _get_fen_and_check_status: one turn of the read loop; on the "Checkers:"
\* line the loop ends and set_fen compares the FEN and returns the status.
DRead ==
    /\ pc = "d_read"
    /\ CanRead(stockfish)
    /\ line' = ReadLine(stockfish)
    /\ pout' = Consume(stockfish)
    /\ seen' = Saw(seen, line')
    /\ IF line'[1] = "Fen: "
       THEN IF fenRead # "None"
            THEN Finish("RuntimeError") /\ UNCHANGED <<fenRead, inCheck, posOK>>
            ELSE /\ fenRead' = line'[2]
                 /\ UNCHANGED <<pc, outcome, inCheck, posOK>>
       ELSE IF line'[1] = "Checkers:"
       THEN IF inCheck # "None"
            THEN Finish("RuntimeError") /\ UNCHANGED <<fenRead, inCheck, posOK>>
            ELSE /\ inCheck' = InCheckOf(line')
                 /\ UNCHANGED fenRead
                 /\ IF fenRead = "None" \/ FenMismatch(arg, fenRead)
                    THEN Finish("RuntimeError") /\ UNCHANGED posOK
                    ELSE /\ Finish(IF inCheck' = "True" THEN "MoverInCheck"
                                   ELSE "MoverNotInCheck")
                         /\ posOK' = TRUE
       ELSE UNCHANGED <<pc, outcome, fenRead, inCheck, posOK>>
    /\ UNCHANGED <<stockfish, nproc, pstate, pin, ppos, op, arg, info, evaluation,
                   sent, ncalls, h0, n0, exitAt, prev, scope, bvars>>

(***************************************************************************)
(* evaluate                                                                *)
(***************************************************************************)
\* A variant of evaluate with the guard inverted.
EvaluateGuardInverted(h) == h # 0

EvaluateGuard(h) == h = 0

\* An optional int is <<>> (None) or <<n>>.
OptInts(S) == {<<>>} \cup {<<n>> : n \in S}

\* evaluate: the list arguments; str(n) is kept as the number n.
Arguments(depth, movetime) ==
    (IF depth # <<>> THEN <<"depth", depth[1]>> ELSE <<>>)
    \o (IF movetime # <<>> THEN <<"movetime", movetime[1]>> ELSE <<>>)

EvaluateCall(depth, movetime) ==
    /\ BeginCall("evaluate", "")
    /\ IF EvaluateGuard(stockfish)
       THEN Finish("RuntimeError") /\ sent' = <<>> /\ UNCHANGED pin
       ELSE Send(<<>>, <<"go", Arguments(depth, movetime)>>, "ev_read")
    /\ UNCHANGED <<stockfish, nproc, pstate, pout, ppos, posOK, bvars>>

\* list.index: the first place of x in s, 0 when x is not in s (ValueError).
RECURSIVE IndexFrom(_, _, _)
IndexFrom(s, x, i) ==
    IF i > Len(s) THEN 0
    ELSE IF s[i] = x THEN i
    ELSE IndexFrom(s, x, i + 1)
Index(s, x) == IndexFrom(s, x, 1)

\* s[a:b] of Python for 0 <= a <= b, with 1-based s.
Slice(s, a, b) ==
    LET hi == IF b < Len(s) THEN b ELSE Len(s) IN
    IF a >= hi THEN <<>> ELSE SubSeq(s, a + 1, hi)

\* A variant of evaluate that keeps the first info line.
InfoKeepsFirst(i, l) == IF l[1] = "info" /\ i = <<>> THEN <<l>> ELSE i

\* evaluate: "if line.startswith("info"): info = line".
InfoAfter(i, l) == IF l[1] = "info" THEN <<l>> ELSE i

\* evaluate: one turn of the read loop; on the "bestmove" line the loop
\* ends and the score is cut out of the last info line.
EvRead ==
    /\ pc = "ev_read"
    /\ CanRead(stockfish)
    /\ line' = ReadLine(stockfish)
    /\ pout' = Consume(stockfish)
    /\ seen' = Saw(seen, line')
    /\ info' = InfoAfter(info, line')
    /\ IF line'[1] = "bestmove"
       THEN IF info' = <<>>
            THEN Finish("RuntimeError") /\ UNCHANGED evaluation
            ELSE LET info_split == <<"info">> \o info'[1][2]
                     idx == Index(info_split, "score")
                 IN  IF idx = 0
                     THEN Finish("ValueError") /\ UNCHANGED evaluation
                     ELSE /\ evaluation' = Slice(info_split, idx, idx + 2)
                          /\ Finish("evaluation")
       ELSE UNCHANGED <<pc, outcome, evaluation>>
    /\ UNCHANGED <<stockfish, nproc, pstate, pin, ppos, op, arg, fenRead, inCheck,
                   sent, ncalls, h0, n0, exitAt, prev, scope, posOK, bvars>>

(***************************************************************************)
(* class Board                                                             *)
(***************************************************************************)
NumCells == 64     \* range(64)
RankLen == 8       \* range(8): cells of a rank, and ranks of the board
PawnLo == 8        \* set(range(8, 56)): the cells a pawn may be put on
PawnHi == 56

Cells == 0..(NumCells - 1)
ValidPawnPositions == PawnLo..(PawnHi - 1)

RECURSIVE Rep(_, _)
Rep(c, n) == IF n <= 0 THEN <<>> ELSE <<c>> \o Rep(c, n - 1)

EmptyBoard == [i \in Cells |-> " "]
InitialBoard ==
    LET cells == <<"r", "n", "b", "q", "k", "b", "n", "r">> \o Rep("p", 8)
                 \o Rep(" ", 32)
                 \o Rep("P", 8) \o <<"R", "N", "B", "Q", "K", "B", "N", "R">>
    IN  [i \in Cells |-> cells[i + 1]]

\* The strings the caller scatters: every string of kings and pawns of at
\* most MaxFree symbols.
PawnCells == Cardinality(ValidPawnPositions)
PieceInputs == UNION {[1..n -> {"K", "p"}] : n \in 0..MaxFree}

BIdle == {"idle", "placed", "IndexError", "fen", "ValueError"}

\* mk_empty
MkEmpty ==
    /\ bpc \in BIdle
    /\ board' = EmptyBoard
    /\ bpc' = "idle"
    /\ board0' = EmptyBoard /\ nplaced' = 0
    /\ pieces' = <<>> /\ pidx' = 0 /\ emptyPos' = {} /\ fenMover' = "" /\ fenOut' = <<>>
    /\ UNCHANGED svars

\* mk_initial
MkInitial ==
    /\ bpc \in BIdle
    /\ board' = InitialBoard
    /\ bpc' = "idle"
    /\ board0' = InitialBoard /\ nplaced' = 0
    /\ pieces' = <<>> /\ pidx' = 0 /\ emptyPos' = {} /\ fenMover' = "" /\ fenOut' = <<>>
    /\ UNCHANGED svars

\* A variant of place_random_pieces that lets a pawn onto any empty cell.
CandidatesAnyEmpty(piece, empty_positions) == empty_positions

\* place_random_pieces: candidate_positions of a piece.
CandidatePositions(piece, empty_positions) ==
    IF piece \in {"p", "P"}
    THEN empty_positions \cap ValidPawnPositions
    ELSE empty_positions

\* random.choice(list(candidate_positions)): any of the candidates.
RandomChoice(candidates) == candidates

\* place_random_pieces, up to the loop.  The method has no precondition:
\* it scatters onto the board as it is.
PlaceCall(ps) ==
    /\ bpc \in BIdle
    /\ nplaced + Len(ps) <= MaxFree
    /\ pieces' = ps
    /\ pidx' = 0
    /\ emptyPos' = {i \in Cells : board[i] = " "}
    /\ bpc' = IF Len(ps) = 0 THEN "placed" ELSE "placing"
    /\ board0' = board
    /\ fenMover' = "" /\ fenOut' = <<>>
    /\ UNCHANGED <<board, nplaced, svars>>

\* place_random_pieces: one turn of the loop.  random.choice of an empty
\* list raises IndexError, which leaves the method.
PlaceStep ==
    /\ bpc = "placing"
    /\ LET piece == pieces[pidx + 1]
           candidate_positions == CandidatePositions(piece, emptyPos)
       IN  IF candidate_positions = {}
           THEN /\ bpc' = "IndexError"
                /\ UNCHANGED <<board, emptyPos, pidx, nplaced>>
           ELSE \E pos \in RandomChoice(candidate_positions) :
                /\ board' = [board EXCEPT ![pos] = piece]
                /\ emptyPos' = emptyPos \ {pos}
                /\ pidx' = pidx + 1
                /\ nplaced' = nplaced + 1
                /\ bpc' = IF pidx + 1 = Len(pieces) THEN "placed" ELSE "placing"
    /\ UNCHANGED <<pieces, board0, fenMover, fenOut, svars>>

\* str(n) and int(c) for the digits fen writes.
DigitChars == <<"1", "2", "3", "4", "5", "6", "7", "8", "9">>
Str(n) == DigitChars[n]
IntOf(c) == CHOOSE n \in 1..Len(DigitChars) : DigitChars[n] = c

\* A variant of fen that merges with "123456" only.
MergesWithShort(c) == c \in {"1", "2", "3", "4", "5", "6"}

\* fen: rank[-1] in "1234567".
MergesWith(c) == c \in {"1", "2", "3", "4", "5", "6", "7"}

\* fen: what one cell f does to the list rank.
FenCell(rank, f) ==
    IF f = " "
    THEN IF Len(rank) # 0 /\ MergesWith(rank[Len(rank)])
         THEN Append(SubSeq(rank, 1, Len(rank) - 1), Str(IntOf(rank[Len(rank)]) + 1))
         ELSE Append(rank, Str(1))
    ELSE Append(rank, f)

\* fen: the list rank after the cells x = 0..n-1 of rank y.
RECURSIVE RankList(_, _, _)
RankList(b, y, n) ==
    IF n = 0 THEN <<>>
    ELSE FenCell(RankList(b, y, n - 1), b[y * RankLen + (n - 1)])

\* "/".join(ranks) for the ranks 0..n-1.
RECURSIVE JoinRanks(_, _)
JoinRanks(b, n) ==
    IF n = 0 THEN <<>>
    ELSE IF n = 1 THEN RankList(b, 0, RankLen)
    ELSE JoinRanks(b, n - 1) \o <<"/">> \o RankList(b, n - 1, RankLen)

\* fen: "{} {} - - 0 1".format(fen_board, mover)
fen(b, mover) ==
    JoinRanks(b, RankLen) \o <<" ", mover, " ", "-", " ", "-", " ", "0", " ", "1">>

Movers == {"w", "b", "x"}

FenCall(mover) ==
    /\ bpc \in BIdle
    /\ fenMover' = mover
    /\ IF mover \notin {"w", "b"}
       THEN bpc' = "ValueError" /\ fenOut' = <<>>
       ELSE bpc' = "fen" /\ fenOut' = fen(board, mover)
    /\ pieces' = <<>> /\ pidx' = 0 /\ emptyPos' = {}
    /\ UNCHANGED <<board, board0, nplaced, svars>>

(***************************************************************************)
(* Specifications                                                          *)
(***************************************************************************)
SInit ==
    /\ stockfish = 0
    /\ nproc = 0
    /\ pstate = [p \in Pids |-> "absent"]
    /\ pin = [p \in Pids |-> <<>>]
    /\ pout = [p \in Pids |-> <<>>]
    /\ ppos = [p \in Pids |-> FenStart]
    /\ op = "none"
    /\ pc = "idle"
    /\ outcome = "none"
    /\ arg = ""
    /\ line = NoLine
    /\ fenRead = "None"
    /\ inCheck = "None"
    /\ info = <<>>
    /\ evaluation = <<>>
    /\ sent = <<>>
    /\ seen = <<>>
    /\ ncalls = 0
    /\ h0 = 0
    /\ n0 = 0
    /\ exitAt = "none"
    /\ prev = "none"
    /\ scope = "out"
    /\ posOK = FALSE

BInit ==
    /\ board = EmptyBoard
    /\ pieces = <<>>
    /\ pidx = 0
    /\ emptyPos = {}
    /\ bpc = "idle"
    /\ board0 = EmptyBoard
    /\ nplaced = 0
    /\ fenMover = ""
    /\ fenOut = <<>>

Init == SInit /\ BInit

\* The session: the caller's calls, the steps of the methods, the engine.
Next ==
    \/ OpenCall
    \/ OpenUci
    \/ OpenRead
    \/ CloseCall
    \/ CloseWait
    \/ NewgameCall
    \/ PingCall
    \/ WaitCall
    \/ WaitWait
    \/ \E f \in Fens : SetFenCall(f)
    \/ SfPosition
    \/ SfIsready
    \/ PingPoll
    \/ PingRead
    \/ SfWait
    \/ SfOpen
    \/ DSend
    \/ DRead
    \/ \E d \in OptInts({2}), m \in OptInts({1000}) : EvaluateCall(d, m)
    \/ EvRead
    \/ \E p \in Pids : ProcStep(p)
    \/ \E p \in Pids : ProcExit(p)

Spec == Init /\ [][Next]_vars

\* The caller's thread keeps running while it is inside ping, and the
\* engine, while it runs, keeps taking the commands written to it.
FairSpec ==
    /\ Spec
    /\ WF_vars(PingPoll)
    /\ WF_vars(PingRead)
    /\ WF_vars(\E p \in Pids : ProcStep(p))

\* The board: reset, scatter, serialise.
BoardNext ==
    \/ MkEmpty
    \/ MkInitial
    \/ \E ps \in PieceInputs : PlaceCall(ps)
    \/ PlaceStep
    \/ \E m \in Movers : FenCall(m)

\* A scatter of a long string is taken up under way: the first symbols have
\* been put, from the empty board, on the cells listed, each of them a
\* candidate of its symbol at its turn; the last MaxFree symbols are left.
FromTo(a, b) == [i \in 1..(b - a + 1) |-> a + i - 1]
Upto(q, n) == SubSeq(q, 1, n)
UnderWay(ps, cells) == <<ps, Upto(cells, Len(ps) - MaxFree)>>

LongScatters ==
    { \* one symbol more than cells
      UnderWay(Rep("Q", NumCells + 1), FromTo(0, NumCells - 1)),
      \* one pawn more than pawn cells
      UnderWay(Rep("p", PawnCells + 1), FromTo(PawnLo, PawnHi - 1)),
      \* the pawns first, then as many kings as cells are left
      UnderWay(Rep("p", PawnCells) \o Rep("K", NumCells - PawnCells),
               FromTo(PawnLo, PawnHi - 1) \o FromTo(0, PawnLo - 1)
                   \o FromTo(PawnHi, NumCells - 1)),
      \* eight kings on the first rank, then the pawns
      UnderWay(Rep("K", RankLen) \o Rep("P", PawnCells),
               FromTo(0, RankLen - 1) \o FromTo(PawnLo, PawnHi - 1)),
      \* eight kings, one of them on a pawn cell, then the pawns
      UnderWay(Rep("K", RankLen) \o Rep("P", PawnCells),
               FromTo(0, RankLen - 2) \o FromTo(PawnLo, PawnHi - 1)) }

CellsOf(q) == {q[i] : i \in 1..Len(q)}
\* Each cell listed was a candidate of its symbol when its turn came.
Followed(ps, cells) ==
    \A i \in 1..Len(cells) :
        cells[i] \in CandidatePositions(ps[i], Cells \ CellsOf(Upto(cells, i - 1)))
Put(ps, cells) ==
    [c \in Cells |-> IF c \in CellsOf(cells)
                     THEN ps[CHOOSE i \in 1..Len(cells) : cells[i] = c]
                     ELSE " "]

ScatterUnderWay ==
    \E r \in LongScatters :
        /\ Followed(r[1], r[2])
        /\ board = Put(r[1], r[2])
        /\ pieces = r[1]
        /\ pidx = Len(r[2])
        /\ emptyPos = Cells \ CellsOf(r[2])
        /\ bpc = "placing"
        /\ board0 = EmptyBoard
        /\ nplaced = 0
        /\ fenMover = ""
        /\ fenOut = <<>>

BoardInit == SInit /\ (BInit \/ ScatterUnderWay)

BoardSpec == BoardInit /\ [][BoardNext]_vars

\* Serialisation alone, from boards the methods can build: one rank holds
\* any pattern of knights, queens and empty cells, on an empty board or in
\* the empty middle of the initial one.
RankPatterns == [0..(RankLen - 1) -> {" ", "N", "q"}]
WithRank(b, y, pat) ==
    [i \in Cells |-> IF i \div RankLen = y THEN pat[i % RankLen] ELSE b[i]]
FenBoards ==
    {WithRank(EmptyBoard, y, pat) : y \in {0, 4, 7}, pat \in RankPatterns}
    \cup {WithRank(InitialBoard, y, pat) : y \in {3}, pat \in RankPatterns}

FenInit ==
    /\ SInit
    /\ board \in FenBoards
    /\ pieces = <<>>
    /\ pidx = 0
    /\ emptyPos = {}
    /\ bpc = "idle"
    /\ board0 = EmptyBoard
    /\ nplaced = 0
    /\ fenMover = ""
    /\ fenOut = <<>>

FenNext == \E m \in Movers : FenCall(m)

FenSpec == FenInit /\ [][FenNext]_vars

(***************************************************************************)
(* Properties                                                              *)
(***************************************************************************)
BeforeReadyok == {"sf_position", "sf_isready", "ping_poll", "ping_read"}

\* C1: if the process exits during set_fen before "readyok" has been read
\* (between the writes of "ucinewgame", "position fen ..." and "isready", or
\* while ping polls and reads), set_fen returns Fault and nothing is raised.
C1_CrashBeforeReadyokYieldsFault ==
    (op = "set_fen" /\ pc = "done" /\ exitAt \in BeforeReadyok)
        => outcome = "Fault"

\* The lines read so far that answer the "d" of the current call.
DumpSeen == SelectSeq(seen, LAMBDA l : l[3] = <<ncalls, "d">>)

\* The engine answered "d" as Stockfish does: no "Checkers:" line before the
\* "Fen: " line and no second "Fen: " line.
DumpAsDocumented ==
    /\ \A i \in 1..Len(DumpSeen) :
          DumpSeen[i][1] = "Checkers:" => \E j \in 1..(i - 1) : DumpSeen[j][1] = "Fen: "
    /\ Cardinality({i \in 1..Len(DumpSeen) : DumpSeen[i][1] = "Fen: "}) <= 1

\* C2: when set_fen has returned Fault, the session holds a process launched
\* during that call, to which "uci" was sent and from which "uciok" was read,
\* and the crashed one is reaped; and a set_fen that follows a Fault, on a
\* process that stays alive and answers "d" as Stockfish does, with a
\* position the engine echoes unchanged, returns MoverInCheck or
\* MoverNotInCheck.
C2_FaultLeavesFreshReadyProcess ==
    /\ (op = "set_fen" /\ pc = "done" /\ outcome = "Fault")
          => /\ stockfish # 0
             /\ stockfish # h0
             /\ stockfish > n0
             /\ pstate[h0] = "reaped"
             /\ sent[Len(sent)] = <<stockfish, <<"uci">>>>
             /\ line[1] = "uciok"
    /\ (/\ op = "set_fen" /\ pc = "done" /\ prev = "Fault"
        /\ stockfish = h0 /\ h0 # 0 /\ pstate[h0] = "running"
        /\ Echo(arg) = arg /\ DumpAsDocumented)
          => outcome \in {"MoverInCheck", "MoverNotInCheck"}

C2_Witness ==
    /\ op = "set_fen" /\ pc = "done" /\ prev = "Fault"
    /\ outcome = "MoverInCheck"
    /\ stockfish = h0 /\ pstate[h0] = "running"

\* C3: set_fen returns MoverInCheck or MoverNotInCheck only when the FEN read
\* back equals the FEN submitted; when a different FEN has been read back,
\* set_fen raises RuntimeError, and it neither returns Fault nor replaces
\* the process.
C3_StatusOnlyOnExactEcho ==
    /\ (op = "set_fen" /\ pc = "done"
        /\ outcome \in {"MoverInCheck", "MoverNotInCheck"})
          => fenRead = arg
    /\ (op = "set_fen" /\ pc = "done" /\ inCheck # "None"
        /\ fenRead # "None" /\ fenRead # arg)
          => /\ outcome = "RuntimeError"
             /\ stockfish = h0
             /\ nproc = n0

C3_Witness ==
    /\ op = "set_fen" /\ pc = "done"
    /\ arg = FenOdd /\ fenRead = FenQuiet /\ inCheck = "False"
    /\ outcome = "RuntimeError" /\ stockfish = h0

\* C4: if the process exits during evaluate, after "go" was sent, and the
\* read loop has reached the end of its output without a "bestmove" line,
\* evaluate has ended with an exception.
C4_CrashInEvaluateIsFatal ==
    (/\ op = "evaluate" /\ exitAt = "ev_read"
     /\ stockfish # 0 /\ pstate[stockfish] # "running"
     /\ pout[stockfish] = <<>> /\ line[1] = "")
        => (pc = "done" /\ outcome \in Exceptions)

\* C5: when set_fen launches the replacement, the dead process is reaped and
\* the session holds no process object; and at any time the only process
\* that is not reaped is the one the session holds.
Unreaped == {p \in Pids : pstate[p] \in {"running", "exited"}}

C5_JoinedBeforeRelaunch ==
    /\ pc = "sf_open" => (stockfish = 0 /\ pstate[h0] = "reaped" /\ Unreaped = {})
    /\ Unreaped \subseteq {stockfish}
    /\ Cardinality(Unreaped) <= 1

C5_Witness ==
    /\ op = "set_fen" /\ pc = "open_uci"
    /\ h0 # 0 /\ pstate[h0] = "reaped"
    /\ stockfish # h0 /\ pstate[stockfish] = "running"

\* C6: close on a session that has been started sends "quit", waits for the
\* process and ends normally with the process reaped.
C6_CloseAlwaysStops ==
    (op = "close" /\ pc = "done" /\ h0 # 0)
        => /\ outcome = "None"
           /\ sent = << <<h0, <<"quit">>>> >>
           /\ pstate[h0] = "reaped"

\* C7: close, set_fen and evaluate on a session without a process, and open
\* on a session with one, raise RuntimeError at once, write no command,
\* launch no process and leave self.stockfish as it was.
WrongState ==
    \/ op \in {"close", "set_fen", "evaluate"} /\ h0 = 0
    \/ op = "open" /\ h0 # 0

C7_WrongStateHasNoEffect ==
    WrongState => /\ pc = "done"
                  /\ outcome = "RuntimeError"
                  /\ sent = <<>>
                  /\ nproc = n0
                  /\ stockfish = h0

C7_Witness ==
    /\ op = "open" /\ h0 # 0 /\ pstate[h0] = "running"
    /\ pc = "done" /\ outcome = "RuntimeError"

\* C8 as claimed: evaluate, called when no set_fen has returned a status on
\* the current process, is rejected with RuntimeError and sends nothing.
C8_EvaluateNeedsSubmittedPosition ==
    (op = "evaluate" /\ ~posOK)
        => (pc = "done" /\ outcome = "RuntimeError" /\ sent = <<>>)

\* C8 as amended: evaluate is rejected with RuntimeError, nothing sent, only
\* on a session without a process; on a session with one, whether or not a
\* set_fen has succeeded, its first act is to write "go", which fails with
\* BrokenPipeError only if the process has exited.
C8_EvaluateChecksOnlyTheHandle ==
    /\ (op = "evaluate" /\ h0 = 0)
          => (pc = "done" /\ outcome = "RuntimeError" /\ sent = <<>>)
    /\ (op = "evaluate" /\ h0 # 0)
          => \/ (Len(sent) = 1 /\ sent[1][1] = h0 /\ sent[1][2][1] = "go")
             \/ (pc = "done" /\ outcome = "BrokenPipeError" /\ sent = <<>>)

C8_Witness ==
    /\ op = "evaluate" /\ ~posOK /\ h0 # 0
    /\ pc = "done" /\ outcome = "evaluation"
    /\ evaluation = <<"mate", "1">>

IsPawn(c) == c \in {"p", "P"}
PawnCount(ps) == Cardinality({i \in 1..Len(ps) : IsPawn(ps[i])})
PieceCount(b) == Cardinality({i \in Cells : b[i] # " "})
BackRanks == Cells \ ValidPawnPositions
\* The scatter under way, or just ended, began on an empty board.
FromEmptyBoard == Cardinality(emptyPos) + pidx = NumCells

\* C9: place_random_pieces on an empty board, with at most 48 pawns among at
\* most 64 symbols, in whatever order and whatever the random choices, ends
\* without error with as many pieces on the board as symbols were given and
\* no pawn in cells 0..7 or 56..63.
C9_ScatterAlwaysFits ==
    (/\ bpc \in {"placed", "IndexError"}
     /\ FromEmptyBoard
     /\ PawnCount(pieces) <= PawnCells
     /\ Len(pieces) <= NumCells)
        => /\ bpc = "placed"
           /\ PieceCount(board) = Len(pieces)
           /\ \A i \in BackRanks : ~IsPawn(board[i])

\* Reading a FEN back: the ten characters after the board part, the rank
\* segments between the slashes, and the cells a segment stands for.
FenTail(mover) == <<" ", mover, " ", "-", " ", "-", " ", "0", " ", "1">>
BoardPart(s) == SubSeq(s, 1, Len(s) - Len(FenTail("w")))
TailPart(s) == SubSeq(s, Len(s) - Len(FenTail("w")) + 1, Len(s))

RECURSIVE SplitSlash(_)
SplitSlash(s) ==
    LET i == Index(s, "/") IN
    IF i = 0 THEN <<s>>
    ELSE <<SubSeq(s, 1, i - 1)>> \o SplitSlash(SubSeq(s, i + 1, Len(s)))

IsRunDigit(c) == c \in {"1", "2", "3", "4", "5", "6", "7", "8"}
IsDigitChar(c) == c \in {"0", "1", "2", "3", "4", "5", "6", "7", "8", "9"}

RECURSIVE Expand(_)
Expand(seg) ==
    IF seg = <<>> THEN <<>>
    ELSE (IF IsRunDigit(Head(seg)) THEN Rep(" ", IntOf(Head(seg))) ELSE <<Head(seg)>>)
         \o Expand(Tail(seg))

RankCells(b, y) == [x \in 1..RankLen |-> b[y * RankLen + (x - 1)]]

\* C10: for a mover w or b, the FEN is eight rank segments (cells 0..7
\* first) joined by "/", then " <mover> - - 0 1"; in a segment the only
\* digits are 1..8, no two digits are adjacent (so a maximal run of empty
\* cells is one digit, and an empty rank is "8"), and expanding the digits
\* gives back the cells of the rank.
C10_FenIsLosslessRunLength ==
    bpc = "fen" =>
        LET segs == SplitSlash(BoardPart(fenOut)) IN
        /\ fenMover \in {"w", "b"}
        /\ Len(fenOut) > Len(FenTail(fenMover))
        /\ TailPart(fenOut) = FenTail(fenMover)
        /\ Len(segs) = RankLen
        /\ \A y \in 0..(RankLen - 1) :
              LET seg == segs[y + 1] IN
              /\ \A i \in 1..Len(seg) : IsDigitChar(seg[i]) => IsRunDigit(seg[i])
              /\ \A i \in 1..(Len(seg) - 1) :
                    ~(IsRunDigit(seg[i]) /\ IsRunDigit(seg[i + 1]))
              /\ Expand(seg) = RankCells(board, y)
              /\ (\A x \in 1..RankLen : RankCells(board, y)[x] = " ") => seg = <<"8">>

C10_Witness ==
    /\ bpc = "fen"
    /\ fenMover = "b"
    /\ fenOut = <<"1", "N", "2", "q", "3", "/", "8", "/", "8", "/", "8", "/",
                  "8", "/", "8", "/", "8", "/", "8">> \o FenTail("b")

(***************************************************************************)
(* evaluate: which line the score is cut from.                             *)
(***************************************************************************)
\* The places of the lines read in the current call that start with k.
SeenAt(k) == {i \in 1..Len(seen) : seen[i][1] = k}

Last(S) == IF S = {} THEN 0 ELSE CHOOSE i \in S : \A j \in S : j <= i

\* The tokens of an info line that say a score: those after "score".
HasScore(l) == \E t \in 1..Len(l[2]) : l[2][t] = "score"
ScoreOf(l) ==
    LET t == CHOOSE u \in 1..Len(l[2]) :
                 l[2][u] = "score" /\ \A v \in 1..(u - 1) : l[2][v] # "score"
    IN  <<l[2][t + 1], l[2][t + 2]>>

\* C11: when evaluate returns a score, the last line it has read is the first
\* line starting with "bestmove" (so no line after it is consumed), and the
\* score is the two tokens after "score" in the last line starting with
\* "info" read before it; an earlier info line does not decide the result.
C11_ScoreFromLastInfoBeforeBestmove ==
    (op = "evaluate" /\ pc = "done" /\ outcome = "evaluation")
       => /\ SeenAt("bestmove") = {Len(seen)}
          /\ SeenAt("info") # {}
          /\ HasScore(seen[Last(SeenAt("info"))])
          /\ evaluation = ScoreOf(seen[Last(SeenAt("info"))])

C11_Witness ==
    /\ op = "evaluate" /\ pc = "done" /\ outcome = "evaluation"
    /\ Cardinality(SeenAt("info")) = 2
    /\ evaluation = <<"mate", "1">>
    /\ pout[stockfish] = <<>>

\* C12: when evaluate has read "bestmove" without having read, in the same
\* call, an info line with a score, it ends with an exception and returns
\* nothing: no score of an earlier evaluate call is returned.
C12_NoInfoLineIsFatal ==
    (/\ op = "evaluate" /\ pc = "done"
     /\ SeenAt("bestmove") # {}
     /\ \A i \in SeenAt("info") : ~HasScore(seen[i]))
       => /\ outcome \in {"RuntimeError", "ValueError"}
          /\ evaluation = <<>>

C12_Witness ==
    /\ op = "evaluate" /\ pc = "done" /\ prev = "evaluation"
    /\ SeenAt("bestmove") # {} /\ SeenAt("info") = {}
    /\ outcome = "RuntimeError"

(***************************************************************************)
(* place_random_pieces: when it fails.                                     *)
(***************************************************************************)
\* The board the scatter under way began on.
StartBoard == board0
OnBoard(b, c) == Cardinality({i \in Cells : b[i] = c})
Given(c) == Cardinality({i \in 1..pidx : pieces[i] = c})
Scattering == bpc \in {"placing", "placed", "IndexError"}

\* C13: place_random_pieces ends with IndexError only at a symbol for which
\* no candidate cell is left (no empty cell, or for a pawn no empty cell in
\* 8..55), and it ends normally only with every symbol placed; each symbol
\* handled went onto a cell that was empty, none was skipped, and no pawn
\* went onto cells 0..7 or 56..63.
C13_ScatterFailsOnlyWithoutCandidates ==
    Scattering =>
       /\ emptyPos = {i \in Cells : board[i] = " "}
       /\ \A i \in Cells : StartBoard[i] # " " => board[i] = StartBoard[i]
       /\ \A c \in {pieces[i] : i \in 1..pidx} :
             OnBoard(board, c) = OnBoard(StartBoard, c) + Given(c)
       /\ \A i \in BackRanks : IsPawn(board[i]) => board[i] = StartBoard[i]
       /\ (bpc = "placed") = (pidx = Len(pieces))
       /\ bpc = "IndexError" =>
             IF IsPawn(pieces[pidx + 1])
             THEN \A i \in ValidPawnPositions : board[i] # " "
             ELSE \A i \in Cells : board[i] # " "

C13_Witness ==
    /\ bpc = "IndexError"
    /\ IsPawn(pieces[pidx + 1])
    /\ pidx = PawnCells
    /\ \E i \in BackRanks : board[i] = " "

(***************************************************************************)
(* The session as a context manager: __enter__ is open(), __exit__ is      *)
(* close().                                                                *)
(***************************************************************************)
\* The close() of __exit__ has ended.
ScopeLeft == scope = "exit" /\ pc = "done"

\* C14: when the scope is left, whether its body returned or raised, every
\* process launched is reaped and the close() of __exit__ raises nothing.
C14_ScopeExitReapsAndKeepsError ==
    ScopeLeft
       => /\ outcome = "None"
          /\ \A p \in 1..nproc : pstate[p] = "reaped"

(***************************************************************************)
(* set_fen: the order of its commands.                                     *)
(***************************************************************************)
SetFenOrder == << <<"ucinewgame">>, <<"position", arg>>, <<"isready">> >>
SentNames == {sent[i][2][1] : i \in 1..Len(sent)}

\* C15: the commands set_fen writes are, in this order, "ucinewgame",
\* "position" with its FEN and "isready", to the process it began with, and
\* then either "d" to the same process, once "readyok" has been read in the
\* call, or, on the crash path, "uci" to a process launched in the call; "d"
\* and "uci" are never both written.
C15_SetFenCommandOrder ==
    op = "set_fen" =>
       /\ Len(sent) <= Len(SetFenOrder) + 1
       /\ \A i \in 1..Len(sent) : i <= Len(SetFenOrder) => sent[i] = <<h0, SetFenOrder[i]>>
       /\ Len(sent) > Len(SetFenOrder) =>
             \/ /\ sent[Len(sent)] = <<h0, <<"d">>>>
                /\ stockfish = h0 /\ nproc = n0
                /\ SeenAt("readyok") # {}
                /\ pc \in {"d_read", "done"}
             \/ /\ sent[Len(sent)] = <<stockfish, <<"uci">>>>
                /\ stockfish > n0
                /\ pc \in {"open_read", "done"}
       /\ (nproc > n0 \/ pc \in {"sf_wait", "sf_open"}) => "d" \notin SentNames

C15_Witness ==
    /\ op = "set_fen" /\ pc = "done" /\ outcome = "Fault"
    /\ SentNames = {"ucinewgame", "position", "isready", "uci"}
    /\ SeenAt("readyok") = {}

(***************************************************************************)
(* open: the handshake.                                                    *)
(***************************************************************************)
\* C16: an open() that launched a process writes "uci" to it and nothing
\* else, and from then on it has ended exactly when a line "uciok" has been
\* read, which is then the last line read, and it has returned normally;
\* without that line, also when the process has exited and its output is at
\* its end, open() is still reading.
C16_OpenReturnsOnlyOnUciok ==
    (op = "open" /\ sent # <<>>)
       => /\ sent = << <<stockfish, <<"uci">>>> >>
          /\ stockfish > n0
          /\ (pc = "done") = (SeenAt("uciok") # {})
          /\ pc \in {"open_read", "done"}
          /\ pc = "done" => outcome = "None" /\ SeenAt("uciok") = {Len(seen)}

C16_Witness ==
    /\ op = "open" /\ pc = "open_read"
    /\ pstate[stockfish] = "exited" /\ pout[stockfish] = <<>>
    /\ line[1] = "" /\ seen = <<>>
    /\ sent # <<>>

(***************************************************************************)
(* _get_fen_and_check_status: the reply to "d".                            *)
(***************************************************************************)
\* set_fen has read "readyok" and then, after writing "d", the end of the
\* output of the process, with the "Checkers:" line not among the lines read.
DumpCutShort ==
    /\ op = "set_fen" /\ pc \in {"d_read", "done"}
    /\ SeenAt("readyok") # {}
    /\ "d" \in SentNames
    /\ line[1] = ""
    /\ DumpSeen = <<>>

\* C17: when the output of the process has ended after "readyok" and before
\* the "Fen: " and "Checkers:" lines, set_fen has ended with an exception: it
\* does not go on reading.
C17_DumpCutShortIsFatal ==
    DumpCutShort => pc = "done" /\ outcome \in Exceptions

\* The lines read after "d" was written: those after the line "readyok".
DumpRead ==
    IF "d" \in SentNames
    THEN SubSeq(seen, Last(SeenAt("readyok")) + 1, Len(seen))
    ELSE <<>>
DumpAt(k) == {i \in 1..Len(DumpRead) : DumpRead[i][1] = k}
Returned(v) == pc = "done" /\ outcome = v

\* C18: set_fen returns a check status only on the first "Checkers:" line read
\* after "d", with one "Fen: " line read before it: MoverNotInCheck when
\* nothing follows "Checkers:" on that line and MoverInCheck when something
\* does; a "Checkers:" line read with no "Fen: " line before it, and a second
\* "Fen: " line, end set_fen with RuntimeError.
C18_StatusFromFirstCheckersLine ==
    op = "set_fen" =>
       /\ (Returned("MoverInCheck") \/ Returned("MoverNotInCheck"))
             => /\ DumpAt("Checkers:") = {Len(DumpRead)}
                /\ Cardinality(DumpAt("Fen: ")) = 1
                /\ Returned("MoverNotInCheck") = (DumpRead[Len(DumpRead)][2] = "")
       /\ DumpAt("Checkers:") # {} => pc = "done"
       /\ (DumpAt("Checkers:") # {} /\ DumpAt("Fen: ") = {}) => Returned("RuntimeError")
       /\ Cardinality(DumpAt("Fen: ")) >= 2 => Returned("RuntimeError")

C18_Witness ==
    /\ op = "set_fen" /\ Returned("MoverInCheck")
    /\ DumpRead[Len(DumpRead)][2] = "b2"
    /\ DumpAt("+---+") # {}

\* The lines read in the current call that answer a command of an earlier call.
StaleSeen == {i \in 1..Len(seen) : seen[i][3][1] < ncalls}

\* C19: every line set_fen reads after "d" answers the "d" of that very call,
\* so the FEN and the check status are taken from that reply; lines left in
\* the pipe by earlier calls are read before "readyok", where no line is
\* parsed.
C19_ParsedLinesAnswerThisCall ==
    op = "set_fen" =>
       /\ \A i \in 1..Len(DumpRead) : DumpRead[i][3] = <<ncalls, "d">>
       /\ \A i \in StaleSeen : \A j \in SeenAt("readyok") : i < j
       /\ fenRead # "None" => \E i \in DumpAt("Fen: ") : DumpRead[i][2] = fenRead
       /\ inCheck # "None" => DumpAt("Checkers:") # {}
       /\ "d" \in SentNames => stockfish = h0 /\ sent[Len(sent)] = <<h0, <<"d">>>>

C19_Witness ==
    /\ op = "set_fen" /\ Returned("MoverNotInCheck")
    /\ \E i \in StaleSeen : seen[i][1] = "Checkers:"
    /\ \E i \in StaleSeen : seen[i][1] = "Key: "

(***************************************************************************)
(* ping: termination.                                                      *)
(***************************************************************************)
InPing == pc \in {"ping_poll", "ping_read"}
\* ping has raised StockfishException: set_fen is in its except branch, or a
\* ping() of the caller has ended with it.
CrashReported ==
    \/ op = "set_fen" /\ pc = "sf_wait"
    \/ op = "ping" /\ pc = "done" /\ outcome = "StockfishException"

\* C20: ping ends; a read of ping is reached only from a poll that found the
\* process running; and a poll that finds the process gone ends ping with the
\* crash, whatever is left unread in the pipe.
C20_PingTerminates ==
    /\ InPing ~> ~InPing
    /\ [][(pc' = "ping_read" /\ pc # "ping_read")
             => (pc = "ping_poll" /\ pstate[stockfish] = "running")]_vars
    /\ [][(pc = "ping_poll" /\ pc' # "ping_poll" /\ pstate[stockfish] # "running")
             => CrashReported']_vars
    /\ (pc = "ping_poll" /\ pstate[stockfish] # "running") ~> CrashReported

C20_Witness ==
    /\ op = "set_fen" /\ pc = "sf_wait"
    /\ \E i \in 1..Len(pout[stockfish]) : pout[stockfish][i][3] = <<ncalls, "isready">>
====
